---- MODULE Spec2Model ----
(***************************************************************************)
(* Model of the CV scoring pipeline of ai-cv-screener:                     *)
(*   - CVAnalyzer.calculate_weighted_score   (src/core/cv_analyzer.py)     *)
(*   - retry_with_exponential_backoff        (src/utils/helpers.py)        *)
(*   - CVAnalyzer.score_cv                   (src/core/cv_analyzer.py)     *)
(*   - analyze_cvs, step 3                   (src/features/analysis.py)    *)
(*                                                                         *)
(* Scores are Python floats (IEEE-754 binary64).  A float v is modelled    *)
(* exactly by a pair [T, d] of integers with                               *)
(*        v * 10 * 2^FracBits  =  T * 2^FracBits + d                       *)
(* i.e. v = T/10 + d/(10 * 2^FracBits): T is the number of tenths the      *)
(* decimal arithmetic intends and d is the binary representation error in  *)
(* units of 1/(10 * 2^FracBits).  All operations round to nearest, ties to *)
(* even, on the 53-bit grid of the result's binade, as the hardware does.  *)
(***************************************************************************)
EXTENDS Integers, Sequences, FiniteSets, Bags, TLC

VARIABLES
    llm_scores,     \* argument of calculate_weighted_score (the LLM's JSON rubric)
    weighted,       \* its return value, NoResult before the call
    retry_cfg,      \* decorator arguments and the wrapped function of one wrapper call
    llm_outcomes,   \* what the LLM does on its 1st, 2nd, ... invocation in that call
    retry_run,      \* outcome of the wrapper call, NoResult before the call
    batch,          \* state of one analyze_cvs run (step 3)
    parse,          \* one call of parse_score_from_json: the response and the result
    bscore,         \* one call of batch_score_cvs
    prompt,         \* two submissions and the scoring prompts sent for them
    startup,        \* the weights configuration and the analyzer built from it
    name_call       \* one call of extract_candidate_name: the text and the result

vars == <<llm_scores, weighted, retry_cfg, llm_outcomes, retry_run, batch,
          parse, bscore, prompt, startup, name_call>>

NoResult == [none |-> TRUE]

\* ------------------------------------------------------------------------
\* IEEE-754 double arithmetic on the values the scorer computes
\* ------------------------------------------------------------------------

\* number of fraction bits that make every value of the computation
\* (the smallest is the literal 0.10, a multiple of 2^-56) an integer d
FracBits == 52 + 4

Pow2(n) == 2 ^ n

\* 2^j mod 10
Pow2Mod10(j) == IF j = 0 THEN 1 ELSE <<2, 4, 8, 6>>[((j - 1) % 4) + 1]

Max(a, b) == IF a >= b THEN a ELSE b
Min(a, b) == IF a <= b THEN a ELSE b

\* v >= 2^k
GeqPow2(v, k) ==
    LET A == v.T * Pow2(Max(0 - k, 0))
        B == 10 * Pow2(Max(k, 0))
    IN  A > B \/ (A = B /\ v.d >= 0)

\* floor(log2 v) for 2^-5 <= v < 2^8
RECURSIVE ExponentFrom(_, _)
ExponentFrom(v, k) == IF k < 7 /\ GeqPow2(v, k + 1) THEN ExponentFrom(v, k + 1) ELSE k

Exponent(v) == ExponentFrom(v, 0 - 5)

\* position of the exact value inside its cell of the grid of multiples of 2^-j,
\* in units of 1/(10 * 2^FracBits); the cell is 10 * 2^(FracBits - j) wide
PosInCell(v, j) ==
    LET P == Pow2(FracBits - j)
    IN  (P * (((v.T % 10) * Pow2Mod10(j)) % 10) + v.d) % (10 * P)

\* round the exact value v to the nearest double (ties to even)
FloatRound(v) ==
    IF v.T = 0 /\ v.d = 0 THEN v
    ELSE LET j    == 52 - Exponent(v)
             G    == 10 * Pow2(FracBits - j)
             pos  == PosInCell(v, j)
             down == [T |-> v.T, d |-> v.d - pos]
             up   == [T |-> v.T, d |-> v.d - pos + G]
         IN  IF 2 * pos < G THEN down
             ELSE IF 2 * pos > G THEN up
             ELSE IF PosInCell(v, j - 1) >= G THEN up ELSE down

\* the double denoted by a decimal literal with T tenths (0.30 is FloatLiteral(3))
FloatLiteral(T) == FloatRound([T |-> T, d |-> 0])

\* float(n) for an integer n: exact
FloatOfInt(n) == [T |-> 10 * n, d |-> 0]

\* r * w where r is an integer-valued double
FloatMulInt(r, w) == FloatRound([T |-> r * w.T, d |-> r * w.d])

FloatAdd(a, b) == FloatRound([T |-> a.T + b.T, d |-> a.d + b.d])

\* v >= n for an integer n
FloatGeqInt(v, n) == v.T > 10 * n \/ (v.T = 10 * n /\ v.d >= 0)

\* round(v, 1), in tenths: the nearest tenth of v.  |d| stays below 2^31,
\* far less than half a tenth (2^FracBits / 2), so the nearest tenth is T
Round1(v) == v.T

\* ------------------------------------------------------------------------
\* CVAnalyzer.calculate_weighted_score
\* ------------------------------------------------------------------------

Criteria == {"experience", "impact", "skills", "education", "certs_extras"}

\* WEIGHTS with the experience weight mistyped as 0.20
WEIGHTS_experience20 ==
    [c \in Criteria |-> FloatLiteral(
        CASE c = "experience"   -> 2
          [] c = "impact"       -> 2
          [] c = "skills"       -> 2
          [] c = "education"    -> 2
          [] c = "certs_extras" -> 1)]

\* constants.WEIGHTS: the doubles the literals 0.30, 0.20, 0.20, 0.20, 0.10 denote
WEIGHTS ==
    [c \in Criteria |-> FloatLiteral(
        CASE c = "experience"   -> 3
          [] c = "impact"       -> 2
          [] c = "skills"       -> 2
          [] c = "education"    -> 2
          [] c = "certs_extras" -> 1)]

\* values of the LLM's JSON: a number, a key that is absent, a value float() rejects
Num(n) == [kind |-> "num", v |-> n]
Missing == [kind |-> "missing"]
NonNumeric == [kind |-> "non-numeric"]

\* llm_scores.get(key, 50)
GetScore(s, c) == IF s[c].kind = "missing" THEN Num(50) ELSE s[c]

\* float(x) succeeds
IsNumeric(x) == x.kind = "num"

\* a clamp that forgets the upper bound
Clamp_noUpper(x) == Max(0, x)

\* max(0, min(100, x))
Clamp(x) == Max(0, Min(100, x))

\* the dictionary of the except branch
DefaultWeighted ==
    [experience_score |-> 150, impact_score |-> 100, skills_score |-> 100,
     education_score |-> 100, certs_extras_score |-> 50,
     score |-> 500, recommendation |-> "CONSIDER",
     experience_score_raw |-> 500, impact_score_raw |-> 500, skills_score_raw |-> 500,
     education_score_raw |-> 500, certs_extras_score_raw |-> 500,
     total_score |-> FloatOfInt(50)]

\* the clamped raw scores (lines 53-64)
RawScores(s) == [c \in Criteria |-> Clamp(GetScore(s, c).v)]

\* the weighted contributions (lines 67-71) for self.WEIGHTS = weights
WeightedScoresWith(weights, raw) == [c \in Criteria |-> FloatMulInt(raw[c], weights[c])]

\* the weighted contributions (lines 67-71)
WeightedScores(raw) == WeightedScoresWith(WEIGHTS, raw)

\* total_score (lines 74-80), summed left to right
TotalScore(w) ==
    FloatAdd(FloatAdd(FloatAdd(FloatAdd(w["experience"], w["impact"]),
        w["skills"]), w["education"]), w["certs_extras"])

\* the tier of the unrounded total (lines 83-90)
Recommendation(total_score) ==
    IF FloatGeqInt(total_score, 80) THEN "STRONGLY RECOMMEND"
    ELSE IF FloatGeqInt(total_score, 60) THEN "RECOMMEND"
    ELSE IF FloatGeqInt(total_score, 40) THEN "CONSIDER"
    ELSE "REJECT"

\* The returned dictionary (lines 92-106); every score is in tenths, as
\* round(x, 1) leaves it.  total_score is the local variable the tier is
\* decided on (not returned by the code, kept to show what the comparison saw).
WeightedResult(raw, w, total_score) ==
    [experience_score |-> Round1(w["experience"]),
     impact_score |-> Round1(w["impact"]),
     skills_score |-> Round1(w["skills"]),
     education_score |-> Round1(w["education"]),
     certs_extras_score |-> Round1(w["certs_extras"]),
     score |-> Round1(total_score),
     recommendation |-> Recommendation(total_score),
     experience_score_raw |-> Round1(FloatOfInt(raw["experience"])),
     impact_score_raw |-> Round1(FloatOfInt(raw["impact"])),
     skills_score_raw |-> Round1(FloatOfInt(raw["skills"])),
     education_score_raw |-> Round1(FloatOfInt(raw["education"])),
     certs_extras_score_raw |-> Round1(FloatOfInt(raw["certs_extras"])),
     total_score |-> total_score]

calculate_weighted_score(s) ==
    IF \E c \in Criteria : ~IsNumeric(GetScore(s, c))
    THEN DefaultWeighted
    ELSE WeightedResult(RawScores(s), WeightedScores(RawScores(s)),
                        TotalScore(WeightedScores(RawScores(s))))

\* sub-scores the LLM may return: in range, out of range, absent, not a number
InRangeScores == {0, 33, 50, 67, 100}
OutOfRangeScores == {0 - 20, 150}
ScoreInputs == {Num(n) : n \in InRangeScores \cup OutOfRangeScores} \cup {Missing, NonNumeric}

InitScore ==
    /\ llm_scores \in [Criteria -> ScoreInputs]
    /\ weighted = NoResult
    /\ retry_cfg = NoResult /\ llm_outcomes = <<>> /\ retry_run = NoResult
    /\ batch = NoResult
    /\ parse = NoResult /\ bscore = NoResult /\ prompt = NoResult /\ startup = NoResult /\ name_call = NoResult

\* one call of calculate_weighted_score(llm_scores)
CalcWeightedScore ==
    /\ llm_scores # NoResult
    /\ weighted = NoResult
    /\ weighted' = calculate_weighted_score(llm_scores)
    /\ UNCHANGED <<llm_scores, retry_cfg, llm_outcomes, retry_run, batch, parse, bscore, prompt, startup, name_call>>

\* ------------------------------------------------------------------------
\* Error messages: str(e) is a sequence of characters
\* ------------------------------------------------------------------------

UpperCase == <<"A", "B", "C", "D", "E", "F", "G", "H", "I", "J", "K", "L", "M", "N", "O", "P", "Q", "R", "S", "T", "U", "V", "W", "X", "Y", "Z">>
LowerCase == <<"a", "b", "c", "d", "e", "f", "g", "h", "i", "j", "k", "l", "m", "n", "o", "p", "q", "r", "s", "t", "u", "v", "w", "x", "y", "z">>

LowerChar(c) ==
    IF \E i \in 1..26 : UpperCase[i] = c
    THEN LowerCase[CHOOSE i \in 1..26 : UpperCase[i] = c]
    ELSE c

\* str.lower()
Lower(str) == [i \in 1..Len(str) |-> LowerChar(str[i])]

\* sub in str
Contains(str, sub) ==
    \E i \in 0..(Len(str) - Len(sub)) : SubSeq(str, i + 1, i + Len(sub)) = sub

Digits == <<"0", "1", "2", "3", "4", "5", "6", "7", "8", "9">>

\* str(n) for n >= 0
RECURSIVE IntToStr(_)
IntToStr(n) == IF n < 10 THEN <<Digits[n + 1]>> ELSE IntToStr(n \div 10) \o <<Digits[(n % 10) + 1]>>

STR_rate_limit == <<"r", "a", "t", "e", " ", "l", "i", "m", "i", "t">>
STR_quota == <<"q", "u", "o", "t", "a">>
STR_429 == <<"4", "2", "9">>
STR_max_retries_open == <<"M", "a", "x", " ", "r", "e", "t", "r", "i", "e", "s", " ", "(">>
STR_reached_rate_limit_error == <<")", " ", "r", "e", "a", "c", "h", "e", "d", ".", " ", "R", "a", "t", "e", " ", "l", "i", "m", "i", "t", " ", "e", "r", "r", "o", "r", ":", " ">>
STR_none_raised == <<"e", "x", "c", "e", "p", "t", "i", "o", "n", "s", " ", "m", "u", "s", "t", " ", "d", "e", "r", "i", "v", "e", " ", "f", "r", "o", "m", " ", "B", "a", "s", "e", "E", "x", "c", "e", "p", "t", "i", "o", "n">>

\* messages of the exceptions the LLM client raises
MSG_RateLimit == <<"R", "a", "t", "e", " ", "L", "i", "m", "i", "t", " ", "e", "x", "c", "e", "e", "d", "e", "d">>
MSG_Quota == <<"i", "n", "s", "u", "f", "f", "i", "c", "i", "e", "n", "t", "_", "q", "u", "o", "t", "a">>
MSG_429 == <<"E", "r", "r", "o", "r", " ", "c", "o", "d", "e", ":", " ", "4", "2", "9">>
MSG_Timeout == <<"R", "e", "q", "u", "e", "s", "t", " ", "t", "i", "m", "e", "d", " ", "o", "u", "t", ".">>
MSG_Auth == <<"I", "n", "v", "a", "l", "i", "d", " ", "A", "P", "I", " ", "k", "e", "y">>

ErrorMessages == {MSG_RateLimit, MSG_Quota, MSG_429, MSG_Timeout, MSG_Auth}

\* ------------------------------------------------------------------------
\* CVAnalyzer.score_cv (the decorated body) and the LLM boundary
\* ------------------------------------------------------------------------

MAX_RETRIES == 3
INITIAL_RETRY_DELAY == 2
MAX_RETRY_DELAY == 30

\* rubrics a well-formed LLM response holds
UniformRubric(n) == [c \in Criteria |-> Num(n)]

\* what one invocation of the LLM does: it returns a response holding a JSON
\* rubric, or it raises
LLMContent(rubric) == [kind |-> "content", rubric |-> rubric]
LLMRaise(msg) == [kind |-> "raise", msg |-> msg]

\* the outcome of calling a function: a value, or an exception
Returned(v) == [raised |-> FALSE, value |-> v]
Raised(e) == [raised |-> TRUE, exc |-> e]

\* the exception the LLM client raised on invocation number n of this call
LLMException(n, msg) == [origin |-> "llm", call |-> n, msg |-> msg]

\* the dictionary of score_cv's except branch
ErrorAnalysis(msg) ==
    [score |-> 0, recommendation |-> "ERROR", summary |-> "Error during analysis",
     detailed_reasoning |-> msg]

\* The text of a response (result.content) is a sequence of tokens: an opening
\* brace, a closing brace, a stretch of prose without braces, or the members
\* of a JSON object ("key": value, ... without braces) holding a rubric.  Of
\* the LLM's JSON only the five sub-scores are modelled; its other keys
\* (reasons, strengths, summary) pass through the merge unchanged.
LBrace == [t |-> "{"]
RBrace == [t |-> "}"]
Prose == [t |-> "prose"]
Members(rubric) == [t |-> "members", rubric |-> rubric]

\* members that hold, besides the rubric, the keys and values of `other`
MembersWith(rubric, other) == [t |-> "members", rubric |-> rubric, other |-> other]

\* a JSON object without keys besides the sub-scores
NoOtherKeys == [k \in {} |-> ""]

\* keys an LLM may add to its JSON: text fields, and fields that
\* calculate_weighted_score computes
LLMOtherKeys ==
    [summary |-> "LLM summary", strengths |-> "LLM strengths",
     weaknesses |-> "LLM weaknesses", red_flags |-> "LLM red flags",
     experience_reason |-> "LLM reason",
     score |-> 990, recommendation |-> "STRONGLY RECOMMEND", experience_score_raw |-> 10]

\* the keys of the object json.loads returns that are not sub-scores
json_other_keys(text) ==
    IF Len(text) = 3 /\ text[2].t = "members" /\ "other" \in DOMAIN text[2]
    THEN text[2].other
    ELSE NoOtherKeys

\* the response that consists of the JSON object of a rubric and nothing else
JsonText(rubric) == <<LBrace, Members(rubric), RBrace>>

\* the JSON object {}
EmptyJson == [c \in Criteria |-> Missing]

\* re.match(r'\{.*\}', ...): the pattern anchored at the start of the text
re_match_braces(str) ==
    IF Len(str) > 0 /\ str[1].t = "{" /\ \E j \in 2..Len(str) : str[j].t = "}"
    THEN SubSeq(str, 1, CHOOSE j \in 2..Len(str) :
                            str[j].t = "}" /\ \A k \in (j + 1)..Len(str) : str[k].t # "}")
    ELSE <<>>

\* re.search(r'\{.*\}', str, re.DOTALL).group(): from the first opening brace
\* to the last closing brace behind it; <<>> when there is no match
re_search_braces(str) ==
    IF \E i \in 1..Len(str) : \E j \in (i + 1)..Len(str) : str[i].t = "{" /\ str[j].t = "}"
    THEN SubSeq(str,
             CHOOSE i \in 1..Len(str) : str[i].t = "{" /\ \A k \in 1..(i - 1) : str[k].t # "{",
             CHOOSE j \in 1..Len(str) : str[j].t = "}" /\ \A k \in (j + 1)..Len(str) : str[k].t # "}")
    ELSE <<>>

\* json.loads(text) of a text that starts and ends with a brace: the object,
\* or JSONDecodeError for anything that is not a well-formed object
json_loads(text) ==
    IF Len(text) = 2
    THEN Returned(EmptyJson)
    ELSE IF Len(text) = 3 /\ text[2].t = "members"
    THEN Returned(text[2].rubric)
    ELSE Raised([origin |-> "json", call |-> 0, msg |-> <<"J", "S", "O", "N", "D", "e", "c", "o", "d", "e", "E", "r", "r", "o", "r">>])

\* a fallback that reports an unparseable response the way score_cv reports
\* a failed call
ParseFallback_error(json_str, weakness) ==
    [score |-> 0, recommendation |-> "ERROR",
     strengths |-> "Unable to parse analysis", weaknesses |-> weakness,
     summary |-> "Error parsing response", detailed_reasoning |-> json_str]
        @@ calculate_weighted_score(EmptyJson)

\* the dictionary returned when no JSON is found or parsing fails (lines
\* 150-158 and 161-169): the literal keys, overridden by the weighted scores
\* of an empty rubric
ParseFallback(json_str, weakness) ==
    calculate_weighted_score(EmptyJson) @@
        [score |-> 500, recommendation |-> "CONSIDER",
         strengths |-> "Unable to parse analysis", weaknesses |-> weakness,
         summary |-> "Error parsing response", detailed_reasoning |-> json_str]

\* a merge in which the keys of the LLM's JSON win: {**weighted_scores, **json_data}
parse_matched_llmWins(json_data, other) ==
    IF json_data.raised THEN json_data
    ELSE Returned(other @@ calculate_weighted_score(json_data.value))

\* lines 139-147: json_data is what json.loads did with the matched text,
\* other its keys besides the sub-scores; {**json_data, **weighted_scores}
parse_matched(json_data, other) ==
    IF json_data.raised THEN json_data
    ELSE Returned(calculate_weighted_score(json_data.value) @@ other)

\* the try block of parse_score_from_json (lines 137-158)
parse_try(json_str, json_match) ==
    IF json_match # <<>>
    THEN parse_matched(json_loads(json_match), json_other_keys(json_match))
    ELSE Returned(ParseFallback(json_str, "Analysis format error"))

\* lines 159-169: the except branch
parse_except(json_str, r) ==
    IF r.raised THEN Returned(ParseFallback(json_str, "Parse error")) ELSE r

\* parse_score_from_json without its except branch
parse_score_from_json_uncaught(json_str) ==
    parse_try(json_str, re_search_braces(json_str))

\* a parse_score_from_json that looks for the object at the start of the text
parse_score_from_json_anchored(json_str) ==
    parse_except(json_str, parse_try(json_str, re_match_braces(json_str)))

\* parse_score_from_json(json_str): what the call does (it returns or raises)
parse_score_from_json_call(json_str) ==
    parse_except(json_str, parse_try(json_str, re_search_braces(json_str)))

\* parse_score_from_json on a response holding a JSON rubric
parse_score_from_json(rubric) == parse_score_from_json_call(JsonText(rubric)).value

\* bound of the responses explored
MaxResponseLen == 5

ResponseTokens ==
    {LBrace, RBrace, Prose, Members(UniformRubric(33)), Members(UniformRubric(100)),
     MembersWith(UniformRubric(33), LLMOtherKeys)}

Responses == UNION {[1..n -> ResponseTokens] : n \in 0..MaxResponseLen}

InitParse ==
    /\ \E json_str \in Responses : parse = [json_str |-> json_str, done |-> FALSE, out |-> NoResult]
    /\ llm_scores = NoResult /\ weighted = NoResult
    /\ retry_cfg = NoResult /\ llm_outcomes = <<>> /\ retry_run = NoResult
    /\ batch = NoResult
    /\ bscore = NoResult /\ prompt = NoResult /\ startup = NoResult /\ name_call = NoResult

\* one call of parse_score_from_json(parse.json_str)
ParseScoreFromJson ==
    /\ parse # NoResult
    /\ ~parse.done
    /\ parse' = [parse EXCEPT !.done = TRUE, !.out = parse_score_from_json_call(parse.json_str)]
    /\ UNCHANGED <<llm_scores, weighted, retry_cfg, llm_outcomes, retry_run, batch,
                   bscore, prompt, startup, name_call>>

\* other things a call through the llm handle can do: the handle is None
\* (prompt | None raises TypeError), or the response is the text `content`
LLMNone == [kind |-> "none"]
LLMText(content) == [kind |-> "text", content |-> content]

\* score_cv's body without its try/except
score_cv_body_uncaught(n, llm) ==
    IF llm.kind = "raise"
    THEN Raised(LLMException(n, llm.msg))
    ELSE IF llm.kind = "text"
    THEN Returned(parse_score_from_json_call(llm.content).value)
    ELSE Returned(parse_score_from_json(llm.rubric))

\* the undecorated body of score_cv on its n-th invocation: every exception of
\* chain.invoke is caught and turned into the ERROR dictionary
score_cv_body(n, llm) ==
    IF llm.kind = "raise"
    THEN Returned(ErrorAnalysis(llm.msg))
    ELSE IF llm.kind = "text"
    THEN Returned(parse_score_from_json_call(llm.content).value)
    ELSE Returned(parse_score_from_json(llm.rubric))

\* a function that lets the LLM's exception through (chain.invoke itself)
llm_invoke(n, llm) ==
    IF llm.kind = "raise"
    THEN Raised(LLMException(n, llm.msg))
    ELSE Returned(llm.rubric)

\* what the patterns of _fallback_extraction find in the CV text of the call
CvText == [name |-> "Jane Doe", email |-> "jane@example.org", phone |-> "Not found"]

\* the profile a well-formed LLM response holds
LLMProfile == [name |-> "Jane A. Doe", email |-> "jane@example.org", phone |-> "Not found",
               location |-> "Berlin", summary |-> "Backend engineer"]

\* CVProcessor._fallback_extraction(text)
fallback_extraction(text) ==
    [name |-> text.name, email |-> text.email, phone |-> text.phone,
     location |-> "Not found", summary |-> "Information extracted using pattern matching"]

\* chain = extraction_prompt | llm; result = chain.invoke({"cv_text": text})
extract_invoke(n, llm) ==
    IF llm.kind = "none"
    THEN Raised([origin |-> "python", call |-> n, msg |-> <<"T", "y", "p", "e", "E", "r", "r", "o", "r">>])
    ELSE IF llm.kind = "raise"
    THEN Raised(LLMException(n, llm.msg))
    ELSE Returned(llm.content)

\* lines 148-156: json_match is what re.search found in the response
extract_parse(text, json_match) ==
    IF json_match # <<>> THEN json_loads(json_match) ELSE Returned(fallback_extraction(text))

\* lines 137-156: the try block; result is what chain.invoke did
extract_try(text, result) ==
    IF result.raised THEN result ELSE extract_parse(text, re_search_braces(result.value))

\* a body whose only handler is `except json.JSONDecodeError`
extract_candidate_info_with_llm_body_jsonOnly(text, n, llm) ==
    IF extract_try(text, extract_invoke(n, llm)).raised
       /\ extract_try(text, extract_invoke(n, llm)).exc.origin = "json"
    THEN Returned(fallback_extraction(text))
    ELSE extract_try(text, extract_invoke(n, llm))

\* the undecorated body of extract_candidate_info_with_llm: both handlers
\* (lines 158-164) return the fallback extraction
extract_candidate_info_with_llm_body(text, n, llm) ==
    IF extract_try(text, extract_invoke(n, llm)).raised
    THEN Returned(fallback_extraction(text))
    ELSE extract_try(text, extract_invoke(n, llm))

\* func(*args, **kwargs) for the functions the wrapper is applied to
CallFunc(func, n, llm) ==
    IF func = "score_cv" THEN score_cv_body(n, llm)
    ELSE IF func = "extract_candidate_info_with_llm"
    THEN extract_candidate_info_with_llm_body(CvText, n, llm)
    ELSE llm_invoke(n, llm)

\* ------------------------------------------------------------------------
\* retry_with_exponential_backoff
\* ------------------------------------------------------------------------

\* a predicate that also takes a timeout for a rate limit
IsRateLimitError_orTimeout(msg) ==
    LET error_msg == Lower(msg)
    IN  Contains(error_msg, STR_rate_limit) \/ Contains(error_msg, STR_quota)
            \/ Contains(error_msg, STR_429) \/ Contains(error_msg, <<"t", "i", "m", "e", "d", " ", "o", "u", "t">>)

\* a predicate that forgets to lower-case the message
IsRateLimitError_caseSensitive(msg) ==
    Contains(msg, STR_rate_limit) \/ Contains(msg, STR_quota) \/ Contains(msg, STR_429)

\* 'rate limit' in error_msg or 'quota' in error_msg or '429' in error_msg
IsRateLimitError(msg) ==
    LET error_msg == Lower(msg)
    IN  Contains(error_msg, STR_rate_limit) \/ Contains(error_msg, STR_quota)
            \/ Contains(error_msg, STR_429)

\* Exception(f"Max retries ({max_retries}) reached. Rate limit error: {str(e)}")
MaxRetriesException(max_retries, e) ==
    [origin |-> "wrapper", call |-> e.call,
     msg |-> STR_max_retries_open \o IntToStr(max_retries)
                 \o STR_reached_rate_limit_error \o e.msg]

\* raise None
NoneRaised == [origin |-> "python", call |-> 0, msg |-> STR_none_raised]

\* a backoff that doubles without the cap
NextDelay_uncapped(delay, max_delay) == delay * 2

\* delay = min(delay * 2, max_delay)
NextDelay(delay, max_delay) == Min(delay * 2, max_delay)

\* The for loop of wrapper from iteration `attempt` on.  run records what has
\* happened so far: calls (invocations of func), sleeps (the delays slept, in
\* order), errors (the messages func raised, in order).
RECURSIVE wrapper_loop(_, _, _, _, _)

\* lines 31-47: func raised the exception e on iteration `attempt`
wrapper_except(cfg, outs, attempt, delay, run, e) ==
    IF IsRateLimitError(e.msg)
    THEN IF attempt < cfg.max_retries - 1
         THEN wrapper_loop(cfg, outs, attempt + 1, NextDelay(delay, cfg.max_delay),
                  [run EXCEPT !.errors = Append(@, e.msg), !.sleeps = Append(@, delay)])
         ELSE [run EXCEPT !.errors = Append(@, e.msg), !.status = "raised",
                          !.exc = MaxRetriesException(cfg.max_retries, e)]
    ELSE [run EXCEPT !.errors = Append(@, e.msg), !.status = "raised", !.exc = e]

\* lines 29-30: r is what func did on iteration `attempt`
wrapper_try(cfg, outs, attempt, delay, run, r) ==
    IF ~r.raised
    THEN [run EXCEPT !.status = "returned", !.value = r.value]
    ELSE wrapper_except(cfg, outs, attempt, delay, run, r.exc)

wrapper_loop(cfg, outs, attempt, delay, run) ==
    IF attempt >= cfg.max_retries
    THEN \* line 49: raise last_exception
         [run EXCEPT !.status = "raised",
                     !.exc = IF run.errors = <<>> THEN NoneRaised
                             ELSE LLMException(run.calls, run.errors[Len(run.errors)])]
    ELSE wrapper_try(cfg, outs, attempt, delay, [run EXCEPT !.calls = @ + 1],
                     CallFunc(cfg.func, run.calls + 1, outs[run.calls + 1]))

\* wrapper(*args, **kwargs): cfg holds the decorator's arguments and the
\* decorated function, outs what the LLM does on each invocation
wrapper(cfg, outs) ==
    wrapper_loop(cfg, outs, 0, cfg.initial_delay,
        [status |-> "running", value |-> NoResult, exc |-> NoResult,
         calls |-> 0, sleeps |-> <<>>, errors |-> <<>>])

\* @retry_with_exponential_backoff(max_retries=3) def score_cv
ScoreCvConfig ==
    [func |-> "score_cv", max_retries |-> 3,
     initial_delay |-> INITIAL_RETRY_DELAY, max_delay |-> MAX_RETRY_DELAY]

\* analyzer.score_cv(...)
score_cv(outs) == wrapper(ScoreCvConfig, outs)

\* bounds of the wrapper calls explored
MaxRetriesBound == 4
InitialDelays == {1, 2, 40}
MaxDelays == {3, 30}

ResponseRubrics == {UniformRubric(33), UniformRubric(100)}

LLMOutcomes == {LLMContent(r) : r \in ResponseRubrics} \cup {LLMRaise(m) : m \in ErrorMessages}

\* @retry_with_exponential_backoff(max_retries=3) def extract_candidate_info_with_llm
ExtractConfig ==
    [func |-> "extract_candidate_info_with_llm", max_retries |-> 3,
     initial_delay |-> INITIAL_RETRY_DELAY, max_delay |-> MAX_RETRY_DELAY]

\* what a call through the llm handle does during extraction
ExtractOutcomes ==
    {LLMRaise(m) : m \in ErrorMessages} \cup {LLMNone} \cup
    {LLMText(t) : t \in {<<Prose>>, <<LBrace, Prose, RBrace>>, <<LBrace, Prose>>,
                         JsonText(LLMProfile), <<Prose>> \o JsonText(LLMProfile)}}

\* rubrics with an absent sub-score, a sub-score that is not a number, and
\* sub-scores out of range
OddRubrics ==
    {[UniformRubric(67) EXCEPT !["skills"] = Missing],
     [UniformRubric(67) EXCEPT !["experience"] = NonNumeric],
     UniformRubric(150), UniformRubric(0 - 20)}

\* what the LLM does during score_cv: also responses with odd rubrics, without
\* JSON, and with malformed JSON
ScoreCvOutcomes ==
    LLMOutcomes \cup {LLMContent(r) : r \in OddRubrics}
        \cup {LLMText(<<Prose>>), LLMText(<<LBrace, Prose, RBrace>>)}

OutcomesOf(cfg) ==
    IF cfg.func = "extract_candidate_info_with_llm" THEN ExtractOutcomes
    ELSE IF cfg.func = "score_cv" THEN ScoreCvOutcomes
    ELSE LLMOutcomes

RetryConfigs ==
    {ScoreCvConfig, ExtractConfig} \cup
    [func : {"llm_invoke"}, max_retries : 0..MaxRetriesBound,
     initial_delay : InitialDelays, max_delay : MaxDelays]

InitRetry ==
    /\ retry_cfg \in RetryConfigs
    /\ llm_outcomes \in [1..Max(retry_cfg.max_retries, 1) -> OutcomesOf(retry_cfg)]
    /\ retry_run = NoResult
    /\ llm_scores = NoResult /\ weighted = NoResult
    /\ batch = NoResult
    /\ parse = NoResult /\ bscore = NoResult /\ prompt = NoResult /\ startup = NoResult /\ name_call = NoResult

\* one call of a decorated function
CallWrapper ==
    /\ retry_cfg # NoResult
    /\ retry_run = NoResult
    /\ retry_run' = wrapper(retry_cfg, llm_outcomes)
    /\ UNCHANGED <<llm_scores, weighted, retry_cfg, llm_outcomes, batch, parse, bscore, prompt, startup, name_call>>

\* ------------------------------------------------------------------------
\* analyze_cvs: extraction and numbering (steps 1 and 2), then the worker
\* pool that scores the candidates (step 3)
\* ------------------------------------------------------------------------

\* bounds of the batches explored
MaxBatch == 6
MaxExtractBatch == 2
MaxLLMFailures == 1

\* what the LLM answers for candidate number n when it answers
CandidateRubric(n) == IF n % 2 = 1 THEN UniformRubric(33) ELSE UniformRubric(100)

\* the way the LLM fails when it fails in a batch
BatchFailure == LLMRaise(MSG_RateLimit)

\* uploaded_files: TRUE where extract_text_from_file succeeds
UploadedFiles ==
    UNION {[1..n -> {TRUE}] : n \in 1..MaxBatch}
        \cup UNION {[1..n -> BOOLEAN] : n \in 1..MaxExtractBatch}

\* indexes of the files whose text was extracted, in upload order (cv_raw_list)
RECURSIVE ExtractedFiles(_, _)
ExtractedFiles(files, i) ==
    IF i > Len(files) THEN <<>>
    ELSE (IF files[i] THEN <<i>> ELSE <<>>) \o ExtractedFiles(files, i + 1)

\* indexes of the files for which "Error processing {name}" is shown (lines
\* 101-103), in upload order
RECURSIVE ExtractErrors(_, _)
ExtractErrors(files, i) ==
    IF i > Len(files) THEN <<>>
    ELSE (IF files[i] THEN <<>> ELSE <<i>>) \o ExtractErrors(files, i + 1)

\* a numbering that gives every uploaded file a candidate entry
ParsedCvList_everyFile(files) ==
    [i \in 1..Len(files) |-> [file |-> i, cv_id |-> i, candidate_number |-> i]]

\* parsed_cv_list: 'candidate_number': i + 1 for the i-th entry of cv_raw_list;
\* save_cv hands out the cv_ids in the same order
ParsedCvList(files) ==
    LET raw == ExtractedFiles(files, 1)
    IN  [i \in 1..Len(raw) |-> [file |-> raw[i], cv_id |-> i, candidate_number |-> i]]

\* a pool without the cap of 5
PoolSize_uncapped(total) == total

\* max_workers=min(5, total)
PoolSize(total) == Min(5, total)

InitBatch ==
    /\ llm_scores = NoResult /\ weighted = NoResult
    /\ retry_cfg = NoResult /\ llm_outcomes = <<>> /\ retry_run = NoResult
    /\ parse = NoResult /\ bscore = NoResult /\ prompt = NoResult /\ startup = NoResult /\ name_call = NoResult
    /\ \E files \in UploadedFiles :
        batch = [pc |-> "start", uploaded |-> files, parsed_cv_list |-> <<>>,
                 total |-> 0, max_workers |-> 0, task |-> <<>>, result |-> <<>>,
                 llm_failed |-> {}, completed |-> 0, saved |-> EmptyBag,
                 ui_errors |-> <<>>, viewed |-> FALSE, ranked |-> <<>>,
                 steps |-> <<>>, extract_errors |-> <<>>]

Running(b) == {i \in 1..Len(b.task) : b.task[i] = "running"}
Queued(b) == {i \in 1..Len(b.task) : b.task[i] = "queued"}

\* analyze_cvs up to the submission of the scoring tasks: the subheaders of
\* steps 1, 2 and 3 are shown (lines 78, 111, 159), then the pool is built.
\* ThreadPoolExecutor raises ValueError for max_workers = 0, which the outer
\* except reports.
StartAnalysis ==
    /\ batch # NoResult
    /\ batch.pc = "start"
    /\ LET parsed == ParsedCvList(batch.uploaded)
           total  == Len(parsed)
           b1     == [batch EXCEPT !.parsed_cv_list = parsed, !.total = total,
                          !.extract_errors = ExtractErrors(batch.uploaded, 1),
                          !.steps = <<1, 2, 3>>]
       IN  IF PoolSize(total) <= 0
           THEN batch' = [b1 EXCEPT !.pc = "aborted",
                              !.ui_errors = Append(@, "An error occurred during analysis")]
           ELSE batch' = [b1 EXCEPT !.pc = "scoring", !.max_workers = PoolSize(total),
                              !.task = [i \in 1..total |-> "queued"],
                              !.result = [i \in 1..total |-> NoResult]]
    /\ UNCHANGED <<llm_scores, weighted, retry_cfg, llm_outcomes, retry_run, parse, bscore, prompt, startup, name_call>>

\* a pool whose threads each run one task and are not used again
WorkerStart_noReuse ==
    /\ batch # NoResult
    /\ batch.pc \in {"scoring", "aborted"}
    /\ Queued(batch) # {}
    /\ Cardinality({i \in 1..Len(batch.task) : batch.task[i] # "queued"}) < batch.max_workers
    /\ LET i == CHOOSE q \in Queued(batch) : \A r \in Queued(batch) : q <= r
       IN  batch' = [batch EXCEPT !.task[i] = "running"]
    /\ UNCHANGED <<llm_scores, weighted, retry_cfg, llm_outcomes, retry_run, parse, bscore, prompt, startup, name_call>>

\* a worker thread of the pool takes the next work item off the FIFO queue;
\* the pool never has more than max_workers threads
WorkerStart ==
    /\ batch # NoResult
    /\ batch.pc \in {"scoring", "aborted"}
    /\ Queued(batch) # {}
    /\ Cardinality(Running(batch)) < batch.max_workers
    /\ LET i == CHOOSE q \in Queued(batch) : \A r \in Queued(batch) : q <= r
       IN  batch' = [batch EXCEPT !.task[i] = "running"]
    /\ UNCHANGED <<llm_scores, weighted, retry_cfg, llm_outcomes, retry_run, parse, bscore, prompt, startup, name_call>>

\* a task that reports an ERROR analysis as a failure of the task
analyze_single_cv_errorAsFailure(cv_data, run) ==
    IF run.status = "returned" /\ run.value.recommendation # "ERROR"
    THEN [candidate_number |-> cv_data.candidate_number, analysis |-> run.value,
          error |-> NoResult]
    ELSE [candidate_number |-> cv_data.candidate_number, analysis |-> NoResult,
          error |-> IF run.status = "returned" THEN run.value.detailed_reasoning
                    ELSE run.exc.msg]

\* analyze_single_cv(cv_data), where run is what its call of score_cv did:
\* (cv_data, analysis, None), or (cv_data, None, str(e)) when score_cv raises
analyze_single_cv(cv_data, run) ==
    IF run.status = "returned"
    THEN [candidate_number |-> cv_data.candidate_number, analysis |-> run.value,
          error |-> NoResult]
    ELSE [candidate_number |-> cv_data.candidate_number, analysis |-> NoResult,
          error |-> run.exc.msg]

\* what the call analyzer.score_cv(job_description, cv_data['content'],
\* cv_data['candidate_number']) of a task does, for each candidate number,
\* when the LLM fails and when it answers
TaskScoreCv ==
    [n \in 1..MaxBatch |-> [fails \in BOOLEAN |->
        score_cv([k \in 1..MAX_RETRIES |->
            IF fails THEN BatchFailure ELSE LLMContent(CandidateRubric(n))])]]

\* the task of candidate i runs to its end; the LLM answers or fails
TaskFinish(i) ==
    /\ batch # NoResult
    /\ batch.pc \in {"scoring", "aborted"}
    /\ i \in Running(batch)
    /\ \E fails \in BOOLEAN :
        /\ fails => Cardinality(batch.llm_failed) < MaxLLMFailures
        /\ batch' = [batch EXCEPT
              !.task[i] = "done",
              !.result[i] = analyze_single_cv(batch.parsed_cv_list[i],
                                TaskScoreCv[batch.parsed_cv_list[i].candidate_number][fails]),
              !.llm_failed = IF fails THEN @ \cup {i} ELSE @]
    /\ UNCHANGED <<llm_scores, weighted, retry_cfg, llm_outcomes, retry_run, parse, bscore, prompt, startup, name_call>>

\* one iteration of `for future in as_completed(futures)`: the result of a
\* finished task is collected and, when it holds an analysis, saved;
\* save_cv_analysis re-raises a store error, which leaves the loop.  saved is
\* the table cv_analyses: the bag of the rows inserted.  store_ok tells
\* whether the store accepts the row
CollectStep(i, store_ok) ==
    /\ batch # NoResult
    /\ batch.pc = "scoring"
    /\ i \in 1..Len(batch.task)
    /\ batch.task[i] = "done"
    /\ LET res == batch.result[i]
           cv_data == batch.parsed_cv_list[i]
           b1 == [batch EXCEPT !.task[i] = "collected", !.completed = @ + 1]
       IN  IF res.error # NoResult
           THEN batch' = [b1 EXCEPT !.ui_errors = Append(@, "Error analyzing Candidate")]
           ELSE IF store_ok
                THEN batch' = [b1 EXCEPT !.saved = @ (+) SetToBag({
                         [cv_id |-> cv_data.cv_id, score |-> res.analysis.score,
                          recommendation |-> res.analysis.recommendation,
                          candidate_number |-> cv_data.candidate_number]})]
                ELSE batch' = [b1 EXCEPT !.pc = "aborted",
                         !.ui_errors = Append(@, "An error occurred during analysis")]
    /\ UNCHANGED <<llm_scores, weighted, retry_cfg, llm_outcomes, retry_run, parse, bscore, prompt, startup, name_call>>

CollectResult(i) == \E store_ok \in BOOLEAN : CollectStep(i, store_ok)

\* a completion that does not wait for the results to be collected
AnalysisComplete_early ==
    /\ batch # NoResult
    /\ batch.pc = "scoring"
    /\ \A i \in 1..Len(batch.task) : batch.task[i] \in {"done", "collected"}
    /\ batch' = [batch EXCEPT !.pc = "complete"]
    /\ UNCHANGED <<llm_scores, weighted, retry_cfg, llm_outcomes, retry_run, parse, bscore, prompt, startup, name_call>>

\* every future has been collected: the pool is shut down and
\* "Analysis complete!" is reported
AnalysisComplete ==
    /\ batch # NoResult
    /\ batch.pc = "scoring"
    /\ \A i \in 1..Len(batch.task) : batch.task[i] = "collected"
    /\ batch' = [batch EXCEPT !.pc = "complete"]
    /\ UNCHANGED <<llm_scores, weighted, retry_cfg, llm_outcomes, retry_run, parse, bscore, prompt, startup, name_call>>

\* the rows of the bag `rows` with the highest score
TopRows(rows) == {r \in BagToSet(rows) : \A q \in BagToSet(rows) : q.score <= r.score}

\* The row sequences "ORDER BY ca.score DESC" may return for the table `rows`:
\* the query names no second sort key, so rows of equal score come in whatever
\* order the engine produces them (SQLite: the order they were inserted in,
\* which is the order the scoring tasks completed in).
RECURSIVE OrderByScoreDesc(_)
OrderByScoreDesc(rows) ==
    IF rows = EmptyBag THEN {<<>>}
    ELSE UNION {{<<r>> \o rest : rest \in OrderByScoreDesc(rows (-) SetToBag({r}))} :
                    r \in TopRows(rows)}

\* Database.get_cv_analyses_for_job(job_id)
get_cv_analyses_for_job(rows) == OrderByScoreDesc(rows)

\* the results page reads the ranked list of the completed run
ViewResults ==
    /\ batch # NoResult
    /\ batch.pc = "complete"
    /\ ~batch.viewed
    /\ \E results \in get_cv_analyses_for_job(batch.saved) :
          batch' = [batch EXCEPT !.viewed = TRUE, !.ranked = results]
    /\ UNCHANGED <<llm_scores, weighted, retry_cfg, llm_outcomes, retry_run, parse, bscore, prompt, startup, name_call>>

\* ------------------------------------------------------------------------
\* CVAnalyzer.batch_score_cvs
\* ------------------------------------------------------------------------

\* bound of the lists explored
MaxCvDataList == 4

\* def score_cv(self, job_description, cv_content, candidate_number: int = 1)
DefaultCandidateNumber == 1

Reverse(seq) == [i \in 1..Len(seq) |-> seq[Len(seq) + 1 - i]]

\* x put into the ascending list `sorted` behind every element whose key is
\* not greater than its own
InsertAscending(sorted, x) ==
    LET k == Cardinality({i \in 1..Len(sorted) : sorted[i].score <= x.score})
    IN  SubSeq(sorted, 1, k) \o <<x>> \o SubSeq(sorted, k + 1, Len(sorted))

\* the stable ascending sort of the first n elements of seq
RECURSIVE StableSortAscending(_, _)
StableSortAscending(seq, n) ==
    IF n = 0 THEN <<>> ELSE InsertAscending(StableSortAscending(seq, n - 1), seq[n])

\* a sort(reverse=True) that only reverses the ascending result
list_sort_reverse_unstable(seq) == Reverse(StableSortAscending(seq, Len(seq)))

\* list.sort(key=lambda x: x['score'], reverse=True): the list is reversed,
\* sorted stably in ascending order, and reversed again
list_sort_reverse(seq) == Reverse(StableSortAscending(Reverse(seq), Len(seq)))

\* results.append({...}) for the analysis the wrapper call `run` returned
BatchResult(cv_data, run) ==
    [file_name |-> cv_data.file_name, score |-> run.value.score,
     recommendation |-> run.value.recommendation]

\* results.sort(...); return results
BatchSorted(out) == [out EXCEPT !.results = list_sort_reverse(@)]

\* the loop of batch_score_cvs from element i on: `calls` are the
\* candidate_number arguments of the score_cv calls made, `results` the list
RECURSIVE batch_score_loop(_, _, _)
batch_score_loop(cv_data_list, i, acc) ==
    IF i > Len(cv_data_list) THEN acc
    ELSE batch_score_loop(cv_data_list, i + 1,
            [calls |-> Append(acc.calls, DefaultCandidateNumber),
             results |-> Append(acc.results, BatchResult(cv_data_list[i],
                 score_cv([k \in 1..MAX_RETRIES |-> cv_data_list[i].llm])))])

\* batch_score_cvs(job_description, cv_data_list)
batch_score_cvs(cv_data_list) ==
    BatchSorted(batch_score_loop(cv_data_list, 1, [calls |-> <<>>, results |-> <<>>]))

\* what the LLM does for the CVs of the list
BatchLLMOutcomes ==
    {LLMContent(UniformRubric(33)), LLMContent(UniformRubric(100)), LLMRaise(MSG_Timeout)}

CvDataLists ==
    UNION {[1..n -> [file_name : {0}, llm : BatchLLMOutcomes]] : n \in 0..MaxCvDataList}

InitBatchScore ==
    /\ \E l \in CvDataLists :
          bscore = [cv_data_list |-> [i \in 1..Len(l) |-> [l[i] EXCEPT !.file_name = i]],
                    returned |-> FALSE, calls |-> <<>>, results |-> <<>>]
    /\ llm_scores = NoResult /\ weighted = NoResult
    /\ retry_cfg = NoResult /\ llm_outcomes = <<>> /\ retry_run = NoResult
    /\ batch = NoResult
    /\ parse = NoResult /\ prompt = NoResult /\ startup = NoResult /\ name_call = NoResult

\* one call of batch_score_cvs
BatchScoreCvs ==
    /\ bscore # NoResult
    /\ ~bscore.returned
    /\ \E out \in {batch_score_cvs(bscore.cv_data_list)} :
          bscore' = [bscore EXCEPT !.returned = TRUE, !.calls = out.calls,
                                   !.results = out.results]
    /\ UNCHANGED <<llm_scores, weighted, retry_cfg, llm_outcomes, retry_run, batch,
                   parse, prompt, startup, name_call>>

\* ------------------------------------------------------------------------
\* The scoring prompt
\* ------------------------------------------------------------------------

Lit(str) == [k |-> "lit", s |-> str]
Var(name) == [k |-> "var", s |-> name]

\* constants.SCORING_PROMPT: literal text and the placeholders in it
SCORING_PROMPT ==
    <<Lit("Act as an expert HR AI specialized in CV analysis. Job Description: "),
      Var("job_description"),
      Lit(" CANDIDATE #"), Var("candidate_number"), Lit(" CV: "),
      Var("cv_content"),
      Lit(" Analyze the CV against the Job Description ... Use 'Candidate #"),
      Var("candidate_number"),
      Lit("' in text, not the name. { ... \"summary\": \"<2-3 sentence assessment for Candidate #"),
      Var("candidate_number"), Lit(">\" }")>>

\* PromptTemplate.format(**inputs)
FormatPrompt(template, inputs) ==
    [i \in 1..Len(template) |->
        IF template[i].k = "var" THEN inputs[template[i].s] ELSE template[i].s]

\* the dictionary score_cv hands to chain.invoke
ScoringInputs(job_description, cv_content, candidate_number) ==
    [job_description |-> job_description, cv_content |-> cv_content,
     candidate_number |-> ToString(candidate_number)]

\* the prompt score_cv(job_description, cv_content, candidate_number) sends
score_cv_prompt(job_description, cv_content, candidate_number) ==
    FormatPrompt(SCORING_PROMPT, ScoringInputs(job_description, cv_content, candidate_number))

\* a task that labels the candidate with the name of the parsed profile
analyze_single_cv_prompt_named(job_description, cv_data) ==
    FormatPrompt(SCORING_PROMPT,
        [job_description |-> job_description, cv_content |-> cv_data.raw_text,
         candidate_number |-> cv_data.parsed_info])

\* the prompt sent by analyze_single_cv(cv_data): analyzer.score_cv(
\* job_description, cv_data['raw_text'], cv_data['candidate_number'])
analyze_single_cv_prompt(job_description, cv_data) ==
    score_cv_prompt(job_description, cv_data.raw_text, cv_data.candidate_number)

\* bound of the candidate numbers explored
MaxCandidateNumber == 2

\* entries of parsed_cv_list
CvDatas ==
    [file_name : {"jane_doe.pdf", "cv_17.pdf"}, raw_text : {"CV text A", "CV text B"},
     parsed_info : {"Jane Doe", "John Roe"}, candidate_number : 1..MaxCandidateNumber]

InitPrompt ==
    /\ \E jd \in {"JD 1", "JD 2"} : \E a \in CvDatas : \E b \in CvDatas :
          prompt = [job_description |-> jd, cv |-> <<a, b>>, sent |-> <<<<>>, <<>>>>]
    /\ llm_scores = NoResult /\ weighted = NoResult
    /\ retry_cfg = NoResult /\ llm_outcomes = <<>> /\ retry_run = NoResult
    /\ batch = NoResult
    /\ parse = NoResult /\ bscore = NoResult /\ startup = NoResult /\ name_call = NoResult

\* the scoring task of submission k sends its prompt
SendPrompt(k) ==
    /\ prompt # NoResult
    /\ prompt.sent[k] = <<>>
    /\ prompt' = [prompt EXCEPT !.sent[k] =
                      analyze_single_cv_prompt(prompt.job_description, prompt.cv[k])]
    /\ UNCHANGED <<llm_scores, weighted, retry_cfg, llm_outcomes, retry_run, batch,
                   parse, bscore, startup, name_call>>

NextPrompt == \E k \in 1..2 : SendPrompt(k)

\* ------------------------------------------------------------------------
\* Startup: the weights configuration and the construction of the analyzer
\* ------------------------------------------------------------------------

\* bound of the weights explored, in tenths
MaxWeightTenths == 3

\* contents constants.WEIGHTS may be edited to, in tenths
WeightConfigs == [Criteria -> 1..MaxWeightTenths]

InitStartup ==
    /\ \E w \in WeightConfigs :
          startup = [weights |-> w, analyzer |-> FALSE, scored |-> FALSE, score |-> 0]
    /\ llm_scores = NoResult /\ weighted = NoResult
    /\ retry_cfg = NoResult /\ llm_outcomes = <<>> /\ retry_run = NoResult
    /\ batch = NoResult
    /\ parse = NoResult /\ bscore = NoResult /\ prompt = NoResult
    /\ name_call = NoResult

\* analyzer = CVAnalyzer(llm): the class body copies WEIGHTS, __init__ stores
\* the llm and builds the prompt template; nothing looks at the weights
CVAnalyzerInit ==
    /\ startup # NoResult
    /\ ~startup.analyzer
    /\ startup' = [startup EXCEPT !.analyzer = TRUE]
    /\ UNCHANGED <<llm_scores, weighted, retry_cfg, llm_outcomes, retry_run, batch,
                   parse, bscore, prompt, name_call>>

\* the analyzer scores a candidate whose five sub-scores are all 100
ScoreWithWeights ==
    /\ startup # NoResult
    /\ startup.analyzer
    /\ ~startup.scored
    /\ startup' = [startup EXCEPT !.scored = TRUE,
          !.score = Round1(TotalScore(WeightedScoresWith(
                        [c \in Criteria |-> FloatLiteral(startup.weights[c])],
                        RawScores(UniformRubric(100)))))]
    /\ UNCHANGED <<llm_scores, weighted, retry_cfg, llm_outcomes, retry_run, batch,
                   parse, bscore, prompt, name_call>>

NextStartup == CVAnalyzerInit \/ ScoreWithWeights

\* ------------------------------------------------------------------------
\* extract_candidate_name (src/core/cv_processor.py lines 201-230)
\*
\* A text is a sequence of lines, each of one kind:
\*   "empty"   nothing but whitespace
\*   "header"  one of CURRICULUM VITAE, CV, RESUME, CONTACT, PERSONAL
\*             INFORMATION in any case
\*   "name"    2 to 4 words, all alphabetic once '.' and ',' are removed,
\*             shorter than 50 characters
\*   "short"   anything else shorter than 50 characters
\*   "long"    anything else of 50 characters or more
\* A line is identified by its position in the text.

MaxLines == 4
MaxGap == 10

LineKinds == {"empty", "header", "name", "short", "long"}

UnknownCandidate == [kind |-> "Unknown Candidate", at |-> 0]

\* the texts: up to MaxLines lines, with a run of gap empty lines after the
\* first of them
Texts ==
    {<<>>} \cup
    { <<l[1]>> \o [i \in 1..gap |-> "empty"] \o SubSeq(l, 2, Len(l)) :
        l \in UNION {[1..n -> LineKinds] : n \in 1..MaxLines}, gap \in 0..MaxGap }

\* lines = text.strip().split('\n'): the whitespace-only lines at both ends
\* go; a text of whitespace only gives the one line ''
strip_split(text) ==
    LET content == {i \in 1..Len(text) : text[i] # "empty"}
        first == CHOOSE i \in content : \A j \in content : i <= j
        last == CHOOSE i \in content : \A j \in content : i >= j
    IN  IF content = {} THEN <<[kind |-> "empty", at |-> 0]>>
        ELSE [i \in 1..(last - first + 1) |->
                [kind |-> text[first + i - 1], at |-> first + i - 1]]

\* lines[:n]
Take(lines, n) == SubSeq(lines, 1, Min(n, Len(lines)))

\* the first line of `lines` with a kind in `kinds`, else `otherwise`
FirstOfKind(lines, kinds, otherwise) ==
    IF \E i \in 1..Len(lines) : lines[i].kind \in kinds
    THEN lines[CHOOSE i \in 1..Len(lines) :
                  /\ lines[i].kind \in kinds
                  /\ \A j \in 1..(i - 1) : lines[j].kind \notin kinds]
    ELSE otherwise

\* lines 219-227: the first non-empty line under 50 characters of lines[:10]
name_fallback(lines) ==
    FirstOfKind(Take(lines, 10), {"header", "name", "short"}, UnknownCandidate)

\* lines 208-216, then the fallback
name_from_lines(lines) ==
    FirstOfKind(Take(lines, 5), {"name"}, name_fallback(lines))

extract_candidate_name(text) == name_from_lines(strip_split(text))

InitName ==
    /\ \E text \in Texts : name_call = [text |-> text, done |-> FALSE, out |-> UnknownCandidate]
    /\ llm_scores = NoResult /\ weighted = NoResult
    /\ retry_cfg = NoResult /\ llm_outcomes = <<>> /\ retry_run = NoResult
    /\ batch = NoResult
    /\ parse = NoResult /\ bscore = NoResult /\ prompt = NoResult /\ startup = NoResult

\* one call of extract_candidate_name
ExtractCandidateName ==
    /\ name_call # NoResult
    /\ ~name_call.done
    /\ name_call' = [name_call EXCEPT !.done = TRUE,
                                      !.out = extract_candidate_name(name_call.text)]
    /\ UNCHANGED <<llm_scores, weighted, retry_cfg, llm_outcomes, retry_run, batch,
                   parse, bscore, prompt, startup>>

\* ------------------------------------------------------------------------
\* The specification
\* ------------------------------------------------------------------------

\* calls of calculate_weighted_score
SpecScore == InitScore /\ [][CalcWeightedScore]_vars

\* calls of functions decorated with retry_with_exponential_backoff
SpecRetry == InitRetry /\ [][CallWrapper]_vars

NextBatch ==
    \/ StartAnalysis
    \/ WorkerStart
    \/ \E i \in 1..MaxBatch : TaskFinish(i)
    \/ \E i \in 1..MaxBatch : CollectResult(i)
    \/ AnalysisComplete
    \/ ViewResults

\* runs of analyze_cvs
SpecBatch == InitBatch /\ [][NextBatch]_vars

\* analyze_cvs when the store does not fail
NextBatchLive ==
    \/ StartAnalysis
    \/ WorkerStart
    \/ \E i \in 1..MaxBatch : TaskFinish(i)
    \/ \E i \in 1..MaxBatch : CollectStep(i, TRUE)
    \/ AnalysisComplete
    \/ ViewResults

\* the steps of the main thread: analyze_cvs up to the as_completed loop, the
\* iterations of the loop, and the end of the with block
MainThread ==
    \/ StartAnalysis
    \/ \E i \in 1..MaxBatch : CollectStep(i, TRUE)
    \/ AnalysisComplete

\* the steps of the pool: a free thread takes a queued task, a running call of
\* the LLM ends
PoolThreads ==
    \/ WorkerStart
    \/ \E i \in 1..MaxBatch : TaskFinish(i)

\* the main thread keeps running while it has a step to take, and so does the
\* pool: every call of the LLM ends
SpecBatchLive ==
    InitBatch /\ [][NextBatchLive]_vars /\ WF_vars(MainThread) /\ WF_vars(PoolThreads)

\* calls of parse_score_from_json
SpecParse == InitParse /\ [][ParseScoreFromJson]_vars

\* the scoring prompts of two submissions
SpecPrompt == InitPrompt /\ [][NextPrompt]_vars

\* startup with an edited weights configuration
SpecStartup == InitStartup /\ [][NextStartup]_vars

\* calls of batch_score_cvs
SpecBatchScore == InitBatchScore /\ [][BatchScoreCvs]_vars

\* calls of extract_candidate_name
SpecName == InitName /\ [][ExtractCandidateName]_vars

Init == InitScore \/ InitRetry \/ InitBatch \/ InitBatchScore \/ InitParse \/ InitPrompt
            \/ InitStartup \/ InitName

Next == CalcWeightedScore \/ CallWrapper \/ NextBatch \/ BatchScoreCvs \/ ParseScoreFromJson
            \/ NextPrompt \/ NextStartup \/ ExtractCandidateName

Spec == Init /\ [][Next]_vars

\* ------------------------------------------------------------------------
\* Properties of calculate_weighted_score (checked under SpecScore)
\* ------------------------------------------------------------------------

Scored == weighted # NoResult

\* the weights in tenths, as the decimal literals of constants.py read
WeightTenths(c) == IF c = "experience" THEN 3 ELSE IF c = "certs_extras" THEN 1 ELSE 2

\* the sub-score the rubric gives for c (50 when the key is absent)
Given(c) == GetScore(llm_scores, c).v

AllNumeric == \A c \in Criteria : GetScore(llm_scores, c).kind = "num"

AllSuppliedInRange ==
    \A c \in Criteria : llm_scores[c].kind = "num" /\ llm_scores[c].v \in 0..100

\* the weighted contribution of criterion c in a returned dictionary
Contribution(w, c) ==
    CASE c = "experience"   -> w.experience_score
      [] c = "impact"       -> w.impact_score
      [] c = "skills"       -> w.skills_score
      [] c = "education"    -> w.education_score
      [] c = "certs_extras" -> w.certs_extras_score

\* the tier of a score given in tenths
TierOf(tenths) ==
    IF tenths >= 800 THEN "STRONGLY RECOMMEND"
    ELSE IF tenths >= 600 THEN "RECOMMEND"
    ELSE IF tenths >= 400 THEN "CONSIDER"
    ELSE "REJECT"

\* C1: for a rubric of five integer sub-scores in [0,100] the returned score is
\* exactly 0.30*experience + 0.20*impact + 0.20*skills + 0.20*education
\* + 0.10*certs_extras (in tenths: 3e + 2i + 2s + 2d + c), the weights sum to
\* 1.0, and the score lies in [0,100].
C1_ScoreIsExactWeightedSum ==
    (Scored /\ AllSuppliedInRange) =>
        /\ weighted.score = 3 * Given("experience") + 2 * Given("impact")
               + 2 * Given("skills") + 2 * Given("education") + Given("certs_extras")
        /\ Round1(WEIGHTS["experience"]) + Round1(WEIGHTS["impact"])
               + Round1(WEIGHTS["skills"]) + Round1(WEIGHTS["education"])
               + Round1(WEIGHTS["certs_extras"]) = 10
        /\ weighted.score \in 0..1000

\* a rubric of five different in-range integers has been scored: 51.7
C1_Witness ==
    /\ Scored
    /\ AllSuppliedInRange
    /\ llm_scores["experience"].v = 67 /\ llm_scores["impact"].v = 33
    /\ llm_scores["skills"].v = 100 /\ llm_scores["education"].v = 0
    /\ llm_scores["certs_extras"].v = 50
    /\ weighted.score = 517

\* C2: the recommendation is the tier of the returned total with inclusive
\* lower bounds: 80.0 and above STRONGLY RECOMMEND, 60.0 to 79.9 RECOMMEND,
\* 40.0 to 59.9 CONSIDER, below 40.0 REJECT.
C2_RecommendationIsTierOfTotal ==
    (Scored /\ AllNumeric) => weighted.recommendation = TierOf(weighted.score)

\* C3: a numeric sub-score outside [0,100] is clamped before weighting and the
\* response is not rejected: each contribution is weight * 100 for a value
\* above 100 and 0 for a negative one, and the total stays in [0,100].
C3_OutOfRangeIsClamped ==
    (Scored /\ AllNumeric) =>
        /\ \A c \in Criteria :
              Contribution(weighted, c) =
                  WeightTenths(c) * (IF Given(c) > 100 THEN 100
                                     ELSE IF Given(c) < 0 THEN 0 ELSE Given(c))
        /\ weighted.score \in 0..1000
        /\ llm_scores["experience"] = Num(150) => weighted.experience_score = 300

\* experience_score = 150 and impact_score = -20 have been scored
C3_Witness ==
    /\ Scored
    /\ AllNumeric
    /\ llm_scores["experience"] = Num(150)
    /\ llm_scores["impact"] = Num(0 - 20)
    /\ weighted.experience_score = 300
    /\ weighted.impact_score = 0
    /\ weighted.experience_score_raw = 1000

\* ------------------------------------------------------------------------
\* Properties of retry_with_exponential_backoff and score_cv (SpecRetry)
\* ------------------------------------------------------------------------

WrapperDone == retry_run # NoResult

\* the messages of ErrorMessages that signal rate limiting or quota exhaustion
RateLimitMessages == {MSG_RateLimit, MSG_Quota, MSG_429}

RateLimited(k) ==
    llm_outcomes[k].kind = "raise" /\ llm_outcomes[k].msg \in RateLimitMessages

OtherError(k) ==
    llm_outcomes[k].kind = "raise" /\ llm_outcomes[k].msg \notin RateLimitMessages

\* C4: score_cv never propagates an exception of the LLM call: whatever the
\* failure (rate limit or not) the call returns a result with score 0 and
\* recommendation "ERROR".
C4_ScoreCvNeverRaises ==
    (WrapperDone /\ retry_cfg.func = "score_cv") =>
        /\ retry_run.status = "returned"
        /\ llm_outcomes[1].kind = "raise" =>
              /\ retry_run.value.score = 0
              /\ retry_run.value.recommendation = "ERROR"

\* score_cv has returned after the LLM raised a timeout
C4_Witness ==
    /\ WrapperDone
    /\ retry_cfg.func = "score_cv"
    /\ llm_outcomes[1] = LLMRaise(MSG_Timeout)
    /\ retry_run.status = "returned"
    /\ retry_run.value.recommendation = "ERROR"

\* C6: a rate-limit error of the LLM during score_cv is retried: the LLM is
\* invoked again after a backoff delay, and when a later attempt within
\* max_retries answers, the caller receives that attempt's scored result and
\* not an ERROR result.
C6_ScoreCvRetriesRateLimit ==
    (WrapperDone /\ retry_cfg.func = "score_cv" /\ RateLimited(1)) =>
        /\ retry_run.calls >= 2
        /\ Len(retry_run.sleeps) >= 1
        /\ \A k \in 2..retry_cfg.max_retries :
              (llm_outcomes[k].kind = "content" /\ \A j \in 1..(k - 1) : RateLimited(j))
                  => retry_run.value = parse_score_from_json(llm_outcomes[k].rubric)

\* C7: with max_retries=3, initial_delay=2, max_delay=30 and a function that
\* fails with a rate-limit error on every attempt, the wrapper invokes it
\* exactly 3 times, sleeps 2s then 4s and not after the third failure, and
\* raises an error whose message says that max retries were reached and
\* includes the last error's message.
C7_ExhaustedRetries ==
    (/\ WrapperDone
     /\ retry_cfg = [func |-> "llm_invoke", max_retries |-> 3,
                     initial_delay |-> 2, max_delay |-> 30]
     /\ \A k \in 1..3 : RateLimited(k)) =>
        /\ retry_run.calls = 3
        /\ retry_run.sleeps = <<2, 4>>
        /\ retry_run.status = "raised"
        /\ retry_run.exc.origin = "wrapper"
        /\ Contains(Lower(retry_run.exc.msg), <<"m", "a", "x", " ", "r", "e", "t", "r", "i", "e", "s">>)
        /\ Contains(retry_run.exc.msg, llm_outcomes[3].msg)

\* three rate-limit failures in a row, the last one a 429
C7_Witness ==
    /\ WrapperDone
    /\ retry_cfg = [func |-> "llm_invoke", max_retries |-> 3,
                    initial_delay |-> 2, max_delay |-> 30]
    /\ llm_outcomes = <<LLMRaise(MSG_RateLimit), LLMRaise(MSG_Quota), LLMRaise(MSG_429)>>
    /\ retry_run.status = "raised"
    /\ retry_run.calls = 3

\* C8: the wrapper retries only errors whose lower-cased message contains
\* "rate limit", "quota" or "429"; any other exception propagates on the
\* attempt where it occurs, unchanged, without a sleep and without a further
\* invocation, also after rate-limited attempts.
C8_OnlyRateLimitIsRetried ==
    (WrapperDone /\ retry_cfg.func = "llm_invoke") =>
        /\ \A m \in ErrorMessages :
              m \in RateLimitMessages <=>
                  (\/ Contains(Lower(m), STR_rate_limit)
                   \/ Contains(Lower(m), STR_quota)
                   \/ Contains(Lower(m), STR_429))
        /\ \A j \in 1..(retry_run.calls - 1) : RateLimited(j)
        /\ Len(retry_run.sleeps) <= retry_run.calls - 1 \/ retry_run.calls = 0
        /\ \A k \in 1..retry_cfg.max_retries :
              (OtherError(k) /\ \A j \in 1..(k - 1) : RateLimited(j)) =>
                  /\ retry_run.status = "raised"
                  /\ retry_run.exc = LLMException(k, llm_outcomes[k].msg)
                  /\ retry_run.calls = k
                  /\ Len(retry_run.sleeps) = k - 1

\* a timeout on the second attempt, after a rate-limited first one
C8_Witness ==
    /\ WrapperDone
    /\ retry_cfg.func = "llm_invoke"
    /\ retry_cfg.max_retries = 3
    /\ RateLimited(1)
    /\ llm_outcomes[2] = LLMRaise(MSG_Timeout)
    /\ retry_run.status = "raised"
    /\ retry_run.exc = LLMException(2, MSG_Timeout)
    /\ retry_run.calls = 2
    /\ Len(retry_run.sleeps) = 1

\* C9: the k-th delay slept is initial_delay doubled (k-1) times and capped at
\* max_delay, and no delay slept exceeds max_delay, also when initial_delay
\* is larger than max_delay.
C9_DelaysDoubleAndStayCapped ==
    WrapperDone =>
        \A k \in 1..Len(retry_run.sleeps) :
            /\ retry_run.sleeps[k] = Min(retry_cfg.initial_delay * Pow2(k - 1), retry_cfg.max_delay)
            /\ retry_run.sleeps[k] <= retry_cfg.max_delay

\* ------------------------------------------------------------------------
\* Properties of analyze_cvs (SpecBatch)
\* ------------------------------------------------------------------------

\* the score (in tenths) the answering LLM's rubric gives candidate n
RealScore(n) == IF n % 2 = 1 THEN 330 ELSE 1000

SavedFor(n) == {row \in BagToSet(batch.saved) : row.candidate_number = n}

\* C5: when the LLM call of a candidate fails terminally, the completed batch
\* still has N entries: the failing candidate is present with score 0 and
\* recommendation ERROR, every other candidate has its real score, and every
\* scoring task has run and been collected.
C5_FailedCandidateStaysInBatch ==
    batch.pc = "complete" =>
        /\ BagCardinality(batch.saved) = batch.total
        /\ \A i \in 1..batch.total :
              /\ batch.task[i] = "collected"
              /\ Cardinality(SavedFor(i)) = 1
              /\ \A row \in SavedFor(i) :
                    /\ CopiesIn(row, batch.saved) = 1
                    /\ IF i \in batch.llm_failed
                       THEN row.score = 0 /\ row.recommendation = "ERROR"
                       ELSE /\ row.score = RealScore(i)
                            /\ row.recommendation = TierOf(RealScore(i))

\* a batch of 5 has completed with exactly one failed LLM call
C5_Witness ==
    /\ batch.pc = "complete"
    /\ batch.total = 5
    /\ Cardinality(batch.llm_failed) = 1
    /\ BagCardinality(batch.saved) = 5
    /\ \E row \in BagToSet(batch.saved) : row.recommendation = "ERROR"

\* C10: the pool has min(5, N) workers: at any time at most 5 and at most N
\* score_cv calls are in flight.
C10_PoolIsBounded ==
    batch.pc # "start" =>
        /\ Cardinality(Running(batch)) <= 5
        /\ Cardinality(Running(batch)) <= batch.total
        /\ batch.pc = "scoring" =>
              batch.max_workers = (IF batch.total < 5 THEN batch.total ELSE 5)

\* a batch of more than 5 candidates has 5 calls in flight and one waiting
C10_Witness ==
    /\ batch.pc = "scoring"
    /\ batch.total > 5
    /\ Cardinality(Running(batch)) = 5
    /\ Queued(batch) # {}

\* C11: the ranked list read back after a concurrent run is ordered by score
\* descending, and candidates with equal scores appear in ascending
\* candidate_number order, whatever order the scoring tasks completed in.
C11_RankedListIsDeterministic ==
    (batch # NoResult /\ batch.viewed) =>
        \A i \in 1..Len(batch.ranked) : \A j \in 1..Len(batch.ranked) :
            i < j =>
                \/ batch.ranked[i].score > batch.ranked[j].score
                \/ /\ batch.ranked[i].score = batch.ranked[j].score
                   /\ batch.ranked[i].candidate_number < batch.ranked[j].candidate_number

\* ------------------------------------------------------------------------
\* Claims about batch_score_cvs (SpecBatchScore)
\* ------------------------------------------------------------------------

\* the score the analysis of an LLM outcome carries, in tenths
ScoreOfOutcome(llm) ==
    IF llm.kind = "raise" THEN 0 ELSE calculate_weighted_score(llm.rubric).score

\* C12: batch_score_cvs returns a permutation of its input (same length, every
\* input once), ordered by score non-increasing, and candidates of equal score
\* keep their relative input order.
C12_BatchScoreIsStableRanking ==
    (bscore # NoResult /\ bscore.returned) =>
        LET res == bscore.results
            inp == bscore.cv_data_list
        IN  /\ Len(res) = Len(inp)
            /\ \A i \in 1..Len(inp) :
                  Cardinality({k \in 1..Len(res) : res[k].file_name = inp[i].file_name}) = 1
            /\ \A k \in 1..Len(res) :
                  res[k].score = ScoreOfOutcome(inp[res[k].file_name].llm)
            /\ \A j \in 1..Len(res) : \A k \in 1..Len(res) :
                  j < k =>
                      \/ res[j].score > res[k].score
                      \/ res[j].score = res[k].score /\ res[j].file_name < res[k].file_name

\* two inputs of equal score were ranked behind a later input of higher score
C12_Witness ==
    /\ bscore # NoResult /\ bscore.returned
    /\ Len(bscore.results) >= 3
    /\ bscore.results[1].file_name = 3
    /\ bscore.results[2].file_name = 1
    /\ bscore.results[3].file_name = 2
    /\ bscore.results[2].score = bscore.results[3].score

\* C17 (batch_score_cvs): every scoring call of one run carries a distinct
\* candidate_number, and the numbers used are exactly 1..N in input order.
C17_CandidateNumbersAreOneToN ==
    (bscore # NoResult /\ bscore.returned) =>
        /\ Len(bscore.calls) = Len(bscore.cv_data_list)
        /\ \A i \in 1..Len(bscore.calls) : bscore.calls[i] = i

\* ------------------------------------------------------------------------
\* Claims about parse_score_from_json (SpecParse)
\* ------------------------------------------------------------------------

\* tokens i..j of the response are a well-formed JSON object
IsJsonObject(str, i, j) ==
    /\ str[i].t = "{" /\ str[j].t = "}"
    /\ j = i + 1 \/ (j = i + 2 /\ str[i + 1].t = "members")

\* the response holds no well-formed JSON object
NoJsonObject(str) ==
    \A i \in 1..Len(str) : \A j \in (i + 1)..Len(str) : ~IsJsonObject(str, i, j)

\* C13: parse_score_from_json never raises, and for a response with no JSON
\* object or a malformed one it returns the default result: recommendation
\* CONSIDER, summary "Error parsing response", detailed_reasoning = the raw
\* response.
C13_ParseNeverRaises ==
    (parse # NoResult /\ parse.done) =>
        /\ ~parse.out.raised
        /\ NoJsonObject(parse.json_str) =>
              /\ parse.out.value.recommendation = "CONSIDER"
              /\ parse.out.value.summary = "Error parsing response"
              /\ parse.out.value.detailed_reasoning = parse.json_str

\* a response whose braces enclose prose was parsed
C13_Witness ==
    /\ parse # NoResult /\ parse.done
    /\ parse.json_str = <<LBrace, Prose, RBrace>>
    /\ ~parse.out.raised
    /\ parse.out.value.summary = "Error parsing response"

\* prose, one JSON object holding rubric r, prose without braces
ProseObjectProse(str, r) ==
    \E i \in 2..(Len(str) - 3) :
        /\ \A k \in 1..(i - 1) : str[k].t = "prose"
        /\ SubSeq(str, i, i + 2) = JsonText(r)
        /\ \A k \in (i + 3)..Len(str) : str[k].t = "prose"

\* C14: a response of prose, one valid JSON rubric object and more prose
\* without braces is parsed: the scores are those computed from the object.
C14_EmbeddedJsonIsParsed ==
    (parse # NoResult /\ parse.done) =>
        \A r \in {UniformRubric(33), UniformRubric(100)} :
            ProseObjectProse(parse.json_str, r) =>
                /\ ~parse.out.raised
                /\ parse.out.value = calculate_weighted_score(r)

\* "prose {rubric 100} prose" was parsed to score 100.0
C14_Witness ==
    /\ parse # NoResult /\ parse.done
    /\ parse.json_str = <<Prose>> \o JsonText(UniformRubric(100)) \o <<Prose>>
    /\ ~parse.out.raised
    /\ parse.out.value.score = 1000

\* ------------------------------------------------------------------------
\* Claims about extract_candidate_info_with_llm (SpecRetry)
\* ------------------------------------------------------------------------

\* the first call through the llm handle fails: it raises, the handle is
\* None, or the response holds no JSON or malformed JSON
ExtractionFails(llm) ==
    \/ llm.kind \in {"raise", "none"}
    \/ llm.kind = "text" /\ re_search_braces(llm.content) # JsonText(LLMProfile)

\* C15: extract_candidate_info_with_llm never raises outward: it returns a
\* profile dictionary, and in every failure case (the LLM call raises, the
\* response has no JSON or malformed JSON, the llm handle is None) the
\* profile is the pattern-based fallback.
C15_ExtractionNeverRaises ==
    (WrapperDone /\ retry_cfg.func = "extract_candidate_info_with_llm") =>
        /\ retry_run.status = "returned"
        /\ retry_run.value \in {LLMProfile, fallback_extraction(CvText)}
        /\ ExtractionFails(llm_outcomes[1]) => retry_run.value = fallback_extraction(CvText)

\* the LLM raised a rate-limit error and the fallback profile was returned
C15_Witness ==
    /\ WrapperDone
    /\ retry_cfg.func = "extract_candidate_info_with_llm"
    /\ llm_outcomes[1] = LLMRaise(MSG_429)
    /\ retry_run.status = "returned"
    /\ retry_run.value.summary = "Information extracted using pattern matching"

\* ------------------------------------------------------------------------
\* Claims about the scoring prompt (SpecPrompt)
\* ------------------------------------------------------------------------

BothSent == prompt # NoResult /\ prompt.sent[1] # <<>> /\ prompt.sent[2] # <<>>

\* C16: the scoring prompt is a function of (job_description, cv_text,
\* candidate_number) only: submissions that differ only in file name or parsed
\* profile get identical prompts, no prompt holds the file name or the profile,
\* and the subject is named only as Candidate #candidate_number.
C16_PromptHidesIdentity ==
    BothSent =>
        /\ (/\ prompt.cv[1].raw_text = prompt.cv[2].raw_text
            /\ prompt.cv[1].candidate_number = prompt.cv[2].candidate_number)
               => prompt.sent[1] = prompt.sent[2]
        /\ \A k \in 1..2 : \A i \in 1..Len(prompt.sent[k]) :
              /\ prompt.sent[k][i] \notin {prompt.cv[k].file_name, prompt.cv[k].parsed_info}
              /\ SCORING_PROMPT[i] = Var("candidate_number")
                    => prompt.sent[k][i] = ToString(prompt.cv[k].candidate_number)

\* two submissions with the same text and number but different file names
\* and profiles have been sent
C16_Witness ==
    /\ BothSent
    /\ prompt.cv[1].raw_text = prompt.cv[2].raw_text
    /\ prompt.cv[1].candidate_number = prompt.cv[2].candidate_number
    /\ prompt.cv[1].file_name # prompt.cv[2].file_name
    /\ prompt.cv[1].parsed_info # prompt.cv[2].parsed_info
    /\ prompt.sent[1] = prompt.sent[2]

\* ------------------------------------------------------------------------
\* Claims about startup (SpecStartup)
\* ------------------------------------------------------------------------

\* the sum of the configured weights, in tenths
WeightSum(w) ==
    w["experience"] + w["impact"] + w["skills"] + w["education"] + w["certs_extras"]

\* C18: weights that do not sum to 1.0 make the system fail at startup: no
\* analyzer is built from them and no candidate is scored with them.
C18_InvalidWeightsFailAtStartup ==
    (startup # NoResult /\ WeightSum(startup.weights) # 10) =>
        ~startup.analyzer /\ ~startup.scored

\* ------------------------------------------------------------------------
\* Claims about the extraction step of analyze_cvs (SpecBatch)
\* ------------------------------------------------------------------------

\* C19: a run that is left with no CV to score is rejected at the start: the
\* scoring stage (step 3) never begins, and the run is not reported complete.
C19_EmptyListRejectedAtStart ==
    (batch # NoResult /\ batch.pc # "start" /\ batch.total = 0) =>
        /\ batch.pc = "aborted"
        /\ \A k \in 1..Len(batch.steps) : batch.steps[k] # 3

\* the uploaded files whose text was extracted / was not
Extracted == {f \in 1..Len(batch.uploaded) : batch.uploaded[f]}
NotExtracted == {f \in 1..Len(batch.uploaded) : ~batch.uploaded[f]}

\* the candidate entries of file f
EntriesOf(f) == {k \in 1..Len(batch.parsed_cv_list) : batch.parsed_cv_list[k].file = f}

\* C20: an extraction failure is reported for that file and the file is
\* skipped: it gets no candidate entry and no analysis, while every other
\* file gets exactly one entry (in upload order) and, when the run
\* completes, exactly one analysis.
C20_FailedFileIsSkipped ==
    (batch # NoResult /\ batch.pc # "start") =>
        /\ Len(batch.extract_errors) = Cardinality(NotExtracted)
        /\ \A f \in NotExtracted :
              /\ \E k \in 1..Len(batch.extract_errors) : batch.extract_errors[k] = f
              /\ EntriesOf(f) = {}
        /\ \A f \in Extracted : Cardinality(EntriesOf(f)) = 1
        /\ \A j \in 1..Len(batch.parsed_cv_list) : \A k \in 1..Len(batch.parsed_cv_list) :
              j < k => batch.parsed_cv_list[j].file < batch.parsed_cv_list[k].file
        /\ batch.pc = "complete" =>
              /\ BagCardinality(batch.saved) = Cardinality(Extracted)
              /\ \A f \in Extracted : \A k \in EntriesOf(f) :
                    \E row \in BagToSet(batch.saved) : row.cv_id = batch.parsed_cv_list[k].cv_id

\* the first of two files failed extraction and the second was scored
C20_Witness ==
    /\ batch # NoResult
    /\ batch.pc = "complete"
    /\ batch.uploaded = <<FALSE, TRUE>>
    /\ batch.extract_errors = <<1>>
    /\ BagCardinality(batch.saved) = 1

\* ------------------------------------------------------------------------
\* Further claims about parse_score_from_json (SpecParse)
\* ------------------------------------------------------------------------

\* the first opening brace of the response is at i and opens a well-formed
\* object holding a rubric
FirstObjectAt(str, i) ==
    /\ i + 2 <= Len(str)
    /\ \A k \in 1..(i - 1) : str[k].t # "{"
    /\ IsJsonObject(str, i, i + 2)

\* C21: the result is computed from the first balanced {...} object of the
\* response, also when later text holds a closing brace.
C21_FirstBalancedObjectIsParsed ==
    (parse # NoResult /\ parse.done) =>
        \A i \in 1..Len(parse.json_str) :
            FirstObjectAt(parse.json_str, i) =>
                /\ ~parse.out.raised
                /\ parse.out.value.score =
                       calculate_weighted_score(parse.json_str[i + 1].rubric).score

\* C22: on a parse failure the default result has recommendation CONSIDER,
\* all five raw sub-scores at the floor of the range (0), and the score the
\* weighting path yields for those inputs.
C22_DefaultHasFlooredSubScores ==
    (parse # NoResult /\ parse.done /\ NoJsonObject(parse.json_str)) =>
        /\ parse.out.value.recommendation = "CONSIDER"
        /\ parse.out.value.experience_score_raw = 0
        /\ parse.out.value.impact_score_raw = 0
        /\ parse.out.value.skills_score_raw = 0
        /\ parse.out.value.education_score_raw = 0
        /\ parse.out.value.certs_extras_score_raw = 0
        /\ parse.out.value.score = calculate_weighted_score(UniformRubric(0)).score

\* the response is prose, then one JSON object at i holding other keys
\* besides its rubric, then prose
ObjectWithOtherKeysAt(str, i) ==
    /\ FirstObjectAt(str, i)
    /\ "other" \in DOMAIN str[i + 1]
    /\ \A k \in (i + 3)..Len(str) : str[k].t = "prose"

\* C26: score and recommendation of the result are the ones computed by
\* calculate_weighted_score: values the LLM's JSON gives for "score",
\* "recommendation" or "experience_score_raw" never appear in the result,
\* while its text fields pass through unchanged.
C26_ComputedScoresOverrideLLM ==
    (parse # NoResult /\ parse.done) =>
        \A i \in 1..Len(parse.json_str) :
            ObjectWithOtherKeysAt(parse.json_str, i) =>
                LET json == parse.json_str[i + 1]
                    res  == parse.out.value
                IN  /\ ~parse.out.raised
                    /\ res.score = calculate_weighted_score(json.rubric).score
                    /\ res.recommendation = calculate_weighted_score(json.rubric).recommendation
                    /\ res.experience_score_raw =
                           calculate_weighted_score(json.rubric).experience_score_raw
                    /\ res.summary = json.other.summary
                    /\ res.strengths = json.other.strengths
                    /\ res.weaknesses = json.other.weaknesses
                    /\ res.red_flags = json.other.red_flags
                    /\ res.experience_reason = json.other.experience_reason

\* a JSON that claims score 99.0 / STRONGLY RECOMMEND for sub-scores of 33 was
\* parsed to 33.0 / REJECT with the LLM's summary
C26_Witness ==
    /\ parse # NoResult /\ parse.done
    /\ parse.json_str = <<LBrace, MembersWith(UniformRubric(33), LLMOtherKeys), RBrace>>
    /\ ~parse.out.raised
    /\ parse.out.value.score = 330
    /\ parse.out.value.recommendation = "REJECT"
    /\ parse.out.value.summary = "LLM summary"

\* ------------------------------------------------------------------------
\* Further claims about calculate_weighted_score (SpecScore)
\* ------------------------------------------------------------------------

\* C27: the recommendation is the tier of the reported (rounded) score: no
\* result reports 80.0 with RECOMMEND, 60.0 with CONSIDER or 40.0 with REJECT.
C27_NoBoundaryScoreInLowerTier ==
    (Scored /\ AllNumeric) =>
        /\ ~(weighted.score = 800 /\ weighted.recommendation = "RECOMMEND")
        /\ ~(weighted.score = 600 /\ weighted.recommendation = "CONSIDER")
        /\ ~(weighted.score = 400 /\ weighted.recommendation = "REJECT")

\* ------------------------------------------------------------------------
\* Further claims about retry_with_exponential_backoff (SpecRetry)
\* ------------------------------------------------------------------------

\* C29: for every max_retries >= 0 the wrapper invokes the function at least
\* once and at most max(1, max_retries) times, and ends by returning its value
\* or by raising the function's own exception or the max-retries error.
C29_FunctionIsCalledAtLeastOnce ==
    WrapperDone =>
        /\ retry_run.calls >= 1
        /\ retry_run.calls <= Max(1, retry_cfg.max_retries)
        /\ \/ retry_run.status = "returned"
           \/ retry_run.status = "raised" /\ retry_run.exc.origin \in {"llm", "wrapper"}

Recommendations == {"STRONGLY RECOMMEND", "RECOMMEND", "CONSIDER", "REJECT", "ERROR"}

\* C28: every result of score_cv, whatever the LLM did (valid JSON, JSON with
\* missing, non-numeric or out-of-range sub-scores, no JSON, an exception),
\* has a score in [0,100] and one of the five recommendations, and the
\* recommendation is ERROR only when the LLM call raised.
C28_ScoreCvResultIsWellFormed ==
    (WrapperDone /\ retry_cfg.func = "score_cv") =>
        /\ retry_run.status = "returned"
        /\ retry_run.value.score >= 0
        /\ retry_run.value.score <= 1000
        /\ retry_run.value.recommendation \in Recommendations
        /\ retry_run.value.recommendation = "ERROR" => llm_outcomes[1].kind = "raise"

\* score_cv returned for a response whose sub-scores are all below the range
C28_Witness ==
    /\ WrapperDone
    /\ retry_cfg.func = "score_cv"
    /\ llm_outcomes[1] = LLMContent(UniformRubric(0 - 20))
    /\ retry_run.status = "returned"
    /\ retry_run.value.score = 0
    /\ retry_run.value.recommendation = "REJECT"

\* ------------------------------------------------------------------------
\* Further claims about analyze_cvs (SpecBatch)
\* ------------------------------------------------------------------------

\* C24: a failure confined to one candidate, a failing save_cv_analysis
\* included, does not abort the batch: a run that had candidates to score is
\* never aborted, so every other candidate is still collected and saved.
C24_FailureDoesNotCascade ==
    (batch # NoResult /\ batch.total >= 1) => batch.pc # "aborted"

\* the candidates whose result the orchestrator has collected
Collected == {i \in 1..Len(batch.task) : batch.task[i] = "collected"}

\* the rows save_cv_analysis has inserted for candidate i
RowsOf(i) == {row \in BagToSet(batch.saved) : row.cv_id = batch.parsed_cv_list[i].cv_id}

\* C25: the completed counter and the store are written by the orchestrator
\* only, once per collected result: while the run is not aborted, completed
\* is the number of collected results and the store holds exactly one row for
\* every collected result with an analysis and none for any other candidate;
\* when completion is reported every task is finished and collected and
\* completed = total.
C25_CollectedExactlyOnce ==
    (batch # NoResult /\ batch.pc \in {"scoring", "complete"}) =>
        /\ batch.completed = Cardinality(Collected)
        /\ \A i \in 1..Len(batch.task) :
              IF i \in Collected /\ batch.result[i].analysis # NoResult
              THEN /\ Cardinality(RowsOf(i)) = 1
                   /\ \A row \in RowsOf(i) : CopiesIn(row, batch.saved) = 1
              ELSE RowsOf(i) = {}
        /\ batch.pc = "complete" =>
              /\ batch.completed = batch.total
              /\ Collected = 1..batch.total

\* a run of 6 candidates, more than the pool has workers, was reported complete
C25_Witness ==
    /\ batch # NoResult
    /\ batch.pc = "complete"
    /\ batch.total = 6
    /\ batch.completed = 6
    /\ BagCardinality(batch.saved) = 6

\* ------------------------------------------------------------------------
\* Claims about extract_candidate_name (SpecName)

\* the stripped lines that are not empty
NonEmptyLines(text) == SelectSeq(strip_split(text), LAMBDA l : l.kind # "empty")

\* the name when the scan covers the first 5 non-empty lines
NameOfFirstFiveNonEmpty(text) ==
    FirstOfKind(Take(NonEmptyLines(text), 5), {"name"}, name_fallback(strip_split(text)))

\* C23: extract_candidate_name looks at the first 5 non-empty lines (empty
\* lines do not count toward the 5), skips headers and returns the first
\* name-like line; failing that the first non-empty line under 50 characters
\* of the first 10 lines; failing that "Unknown Candidate".
C23_ScansFiveNonEmptyLines ==
    (name_call # NoResult /\ name_call.done) =>
        name_call.out = NameOfFirstFiveNonEmpty(name_call.text)

\* ------------------------------------------------------------------------
\* Termination of analyze_cvs (SpecBatchLive)

\* exactly one row per candidate_number 1..total, and score 0 in the row of a
\* candidate whose LLM call failed
OneRowPerCandidate(b) ==
    /\ BagCardinality(b.saved) = b.total
    /\ \A n \in 1..b.total : \E r \in BagToSet(b.saved) :
          /\ r.candidate_number = n
          /\ n \in b.llm_failed => r.score = 0
          /\ n \notin b.llm_failed => r.recommendation # "ERROR"

SomeFileExtracted(b) == \E i \in 1..Len(b.uploaded) : b.uploaded[i]

\* C30: when every LLM call ends and the store does not fail, analyze_cvs with
\* N >= 1 extracted candidates eventually reports completion, and at
\* completion exactly N analyses are saved, one per candidate_number 1..N, a
\* candidate whose LLM call failed with score 0.
C30_AnalysisCompletesWithAllSaved ==
    /\ [](batch.pc = "complete" => OneRowPerCandidate(batch))
    /\ (batch.pc = "start" /\ SomeFileExtracted(batch)) ~> (batch.pc = "complete")

\* a completed run of more candidates than pool threads, one of them failed
C30_Witness ==
    /\ batch # NoResult
    /\ batch.pc = "complete"
    /\ batch.total > batch.max_workers
    /\ batch.llm_failed # {}
    /\ \E r \in BagToSet(batch.saved) : r.score = 0 /\ r.recommendation = "ERROR"

====
